---- MODULE Spec2Model ----
(***************************************************************************)
(* Relay hub of WindowsCrafted: the WebSocket connection list, the router  *)
(* (sendToDevice), the broadcaster (broadcastToClients), the per-          *)
(* connection message and close handlers, the command and device HTTP      *)
(* handlers (server/routes.ts) and the in-memory store (server/storage.ts).*)
(*                                                                         *)
(* Every handler is an async function.  It runs without interruption up to *)
(* an `await`; the awaited store call is executed at the call, then the    *)
(* handler is suspended and any other handler may run before it resumes.   *)
(* A suspended handler is a record of `tasks`; its `pc` names the await it *)
(* is suspended at.                                                        *)
(***************************************************************************)
EXTENDS Integers, Sequences, FiniteSets, Bags, TLC

\* ---- bounds of the model ------------------------------------------------
MaxConns    == 2   \* connections accepted in one behaviour
MaxCommands == 1   \* commands created in one behaviour
MaxTasks    == 3   \* handlers started in one behaviour of Spec
MaxCommandTasks == 4   \* handlers started in one behaviour of SpecCommands
MaxInFlight == 2   \* handlers suspended at an await at the same time
MaxCloseTasks == 4   \* handlers started in one behaviour of SpecClose
MaxTicks == 2   \* timestamps of lastActive are told apart modulo MaxTicks
MaxFaultTasks == 3   \* handlers started in one behaviour of SpecFaults
MaxFifoTasks == 3   \* handlers started in one behaviour of SpecFifo
MaxSockets == 4   \* WebSocket objects the dashboard client creates in one behaviour
MaxTimers == 2   \* timer handles of the browser that are told apart

\* ---- values --------------------------------------------------------------
DeviceIds  == {"D1", "D2"}
UserIds    == {7}
NoId       == "none"          \* clientInfo.deviceId undefined
NoUser     == 0               \* clientInfo.userId undefined
NoWs       == 0               \* excludeClient undefined
Conns      == 1..MaxConns
Terminal   == {"completed", "failed"}

UndefinedDevice == [deviceId |-> "none", status |-> "undefined", info |-> "undefined",
                    lastActive |-> 0]
NoData == [type |-> "none", token |-> FALSE, deviceId |-> NoId, userId |-> NoUser,
           commandId |-> 0, status |-> "none", result |-> "", info |-> "none"]

\* Inbound WebSocket messages the model sends (shapes of spec section 6).
AuthDevice(d)        == [NoData EXCEPT !.type = "AUTH", !.token = TRUE, !.deviceId = d]
AuthUser(u)          == [NoData EXCEPT !.type = "AUTH", !.userId = u]
AuthBare(d)          == [NoData EXCEPT !.type = "AUTH", !.deviceId = d]
AuthBoth(d, u)       == [AuthDevice(d) EXCEPT !.userId = u]
CommandResponse(k,s) == [NoData EXCEPT !.type = "COMMAND_RESPONSE", !.commandId = k,
                                       !.status = s, !.result = "out"]
DeviceInfo(i)        == [NoData EXCEPT !.type = "DEVICE_INFO", !.info = i]
Messages ==
    {AuthDevice(d) : d \in DeviceIds} \cup {AuthUser(u) : u \in UserIds}
    \cup {AuthBare("D1"), AuthBoth("D1", 7)}
    \cup {CommandResponse(k, s) : k \in 1..MaxCommands, s \in Terminal \cup {"running"}}
    \cup {DeviceInfo("i1")}

\* Inbound messages no branch of the handler takes: a text JSON.parse throws
\* on, and a parsed message of another type.
Unparsable == [NoData EXCEPT !.type = "unparsable"]
Ping       == [NoData EXCEPT !.type = "PING"]
DroppedMessages == {Unparsable, Ping}

\* Outbound messages.
OutMsg(type, deviceId, commandId, status, payload) ==
    [type |-> type, deviceId |-> deviceId, commandId |-> commandId, status |-> status,
     payload |-> payload]

VARIABLES
    connectedClients,  \* the array connectedClients: the registered clientInfo objects, by socket
    clientInfo,        \* the ConnectedClient object of every socket: {deviceId, userId}
    readyState,        \* ws.readyState of every socket
    devices,           \* MemStorage.devices, keyed by the device's identity
    commands,          \* MemStorage.commands; index = id, Len+1 = currentId.commands
    activities,        \* MemStorage.activities in creation order
    written,           \* what ws.send wrote to each socket in the last step
    tasks,             \* the suspended handlers (a bag)
    budget,            \* number of handlers that may still be started (bound of the model)
    offlineBroadcasts, \* per device: DEVICE_STATUS_CHANGED{offline} broadcasts since it was last marked online
    closures,          \* per device: transports of bound connections closed since it was last marked online
    delivery,          \* per command: the outcome of its sendToDevice
    inbound,           \* the connection and type of the message received in the last step
    faulty,            \* the sockets whose send throws
    response,          \* the HTTP response sent in the last step
    announced,         \* per device: the status of the last DEVICE_STATUS_CHANGED broadcast for it
    sendLog,           \* history: the numbered send calls and, per socket, the calls written to it in order
    socket,            \* SocketClient.socket: the index of a WebSocket in webSockets, or null
    webSockets,        \* the WebSocket objects the client created: readyState, and whether AUTH was sent on it
    reconnectTimer,    \* SocketClient.reconnectTimer: a timer handle, or null
    timers,            \* the pending timers of the browser
    isConnecting,      \* SocketClient.isConnecting
    closeCalled,       \* close() was called and neither connect() nor send() since
    authRequested,     \* the page has run connect(); authenticate(user.id)
    fired              \* the client event or call of the last step

vars == <<connectedClients, clientInfo, readyState, devices, commands, activities, written,
          tasks, budget, offlineBroadcasts, closures, delivery, inbound,
          faulty, response, announced, sendLog,
          socket, webSockets, reconnectTimer, timers, isConnecting, closeCalled,
          authRequested, fired>>

serverVars == <<connectedClients, clientInfo, readyState, devices, commands, activities,
                written, tasks, budget, offlineBroadcasts, closures, delivery, inbound,
                faulty, response, announced, sendLog>>
clientVars == <<socket, webSockets, reconnectTimer, timers, isConnecting, closeCalled,
                authRequested, fired>>

\* ---- the dashboard client: initial state of socketClient ------------------
NoSocket == 0
NoTimer  == 0
TimerIds == 1..MaxTimers
Idle     == [kind |-> "none", socket |-> NoSocket]
Fired(kind, i) == [kind |-> kind, socket |-> i]

ClientInit ==
    /\ socket = NoSocket
    /\ webSockets = <<>>
    /\ reconnectTimer = NoTimer
    /\ timers = {}
    /\ isConnecting = FALSE
    /\ closeCalled = FALSE
    /\ authRequested = FALSE
    /\ fired = Idle

\* ---- connection list -----------------------------------------------------
Registered == {connectedClients[i] : i \in 1..Len(connectedClients)}
BoundTo(deviceId) == {ws \in Registered : clientInfo[ws].deviceId = deviceId}

\* Array.prototype.find: the first element that satisfies the predicate, 0 if none.
RECURSIVE FindFrom(_, _)
FindFrom(deviceId, i) ==
    IF i > Len(connectedClients) THEN 0
    ELSE IF clientInfo[connectedClients[i]].deviceId = deviceId THEN i
    ELSE FindFrom(deviceId, i + 1)

FindSkippingFirst(deviceId) == FindFrom(deviceId, 2)

Find(deviceId) == FindFrom(deviceId, 1)

\* connectedClients.filter(c => c.ws !== ws)
RECURSIVE FilterOut(_, _)
FilterOut(clients, ws) ==
    IF clients = <<>> THEN <<>>
    ELSE IF Head(clients) # ws THEN <<Head(clients)>> \o FilterOut(Tail(clients), ws)
    ELSE FilterOut(Tail(clients), ws)

\* ---- broadcaster and router ----------------------------------------------
Silence == [ws \in Conns |-> <<>>]

\* The receipt of a message, and no receipt.
Receipt(ws, data) ==
    [ws |-> ws, type |-> data.type, deviceId |-> data.deviceId, token |-> data.token]
NoInbound == [ws |-> NoWs, type |-> "none", deviceId |-> NoId, token |-> FALSE]

\* forEach over connectedClients; the value is what each socket is sent.
RECURSIVE BroadcastFrom(_, _, _, _)
BroadcastFrom(i, out, data, excludeClient) ==
    IF i > Len(connectedClients) THEN out
    ELSE LET ws == connectedClients[i] IN
         IF ws # excludeClient /\ readyState[ws] = "OPEN"
         THEN IF ws \in faulty
              THEN out    \* send throws: forEach is left, the rest is not visited
              ELSE BroadcastFrom(i + 1, [out EXCEPT ![ws] = Append(@, data)], data,
                                 excludeClient)
         ELSE BroadcastFrom(i + 1, out, data, excludeClient)

\* The broadcast reaches a socket whose send throws: the exception leaves
\* broadcastToClients and reaches its caller.
BroadcastThrows(excludeClient) ==
    \E ws \in Registered : ws # excludeClient /\ readyState[ws] = "OPEN" /\ ws \in faulty

BroadcastIgnoringExclude(data, excludeClient) == BroadcastFrom(1, Silence, data, NoWs)

broadcastToClients(data, excludeClient) == BroadcastFrom(1, Silence, data, excludeClient)

SendReportingTrue(deviceId, data) ==
    LET i == Find(deviceId) IN
    IF i # 0 /\ readyState[connectedClients[i]] = "OPEN"
    THEN IF connectedClients[i] \in faulty
         THEN [delivered |-> FALSE, threw |-> TRUE, written |-> Silence]
         ELSE [delivered |-> TRUE, threw |-> FALSE,
               written |-> [Silence EXCEPT ![connectedClients[i]] = Append(@, data)]]
    ELSE [delivered |-> i # 0, threw |-> FALSE, written |-> Silence]

\* The value is the returned boolean (or that send threw and nothing was
\* returned) and what each socket is sent.
sendToDevice(deviceId, data) ==
    LET i == Find(deviceId) IN
    IF i # 0 /\ readyState[connectedClients[i]] = "OPEN"
    THEN IF connectedClients[i] \in faulty
         THEN [delivered |-> FALSE, threw |-> TRUE, written |-> Silence]
         ELSE [delivered |-> TRUE, threw |-> FALSE,
               written |-> [Silence EXCEPT ![connectedClients[i]] = Append(@, data)]]
    ELSE [delivered |-> FALSE, threw |-> FALSE, written |-> Silence]

\* ---- MemStorage ----------------------------------------------------------
getDeviceByDeviceId(deviceId) ==
    IF deviceId \in DeviceIds THEN devices[deviceId] ELSE UndefinedDevice

\* The numeric id of a device is in one-to-one correspondence with its
\* deviceId (no route creates a device); both are the key of `devices` here.
getDeviceById(id) == devices[id]

\* new Date(): a timestamp later than the one it replaces.
Later(time) == (time + 1) % MaxTicks

updateDeviceStatus(deviceId, status) ==
    IF getDeviceByDeviceId(deviceId) = UndefinedDevice THEN devices
    ELSE [devices EXCEPT ![deviceId].status = status,
                         ![deviceId].lastActive = Later(@)]

updateDevice(id, info) ==
    IF devices[id] = UndefinedDevice THEN devices
    ELSE [devices EXCEPT ![id].info = info]

removeDevice(id) == [devices EXCEPT ![id] = UndefinedDevice]

createCommand(deviceId) ==
    Append(commands, [deviceId |-> deviceId, status |-> "pending", result |-> "",
                      completedAt |-> "null"])

UpdateCommandUpsert(id, status, result) ==
    IF id \in DOMAIN commands
    THEN [commands EXCEPT ![id].status = status, ![id].result = result,
                          ![id].completedAt = "set"]
    ELSE Append(commands, [deviceId |-> NoId, status |-> status, result |-> result,
                           completedAt |-> "set"])

\* updatedFields = {status, result, completedAt: new Date()}
updateCommand(id, status, result) ==
    IF id \notin DOMAIN commands THEN commands
    ELSE [commands EXCEPT ![id].status = status, ![id].result = result,
                          ![id].completedAt = "set"]

\* createActivity, were the id counter not advanced once the log is non-empty.
createActivityReusingId(deviceId, description, status) ==
    IF activities = <<>>
    THEN <<[deviceId |-> deviceId, description |-> description, status |-> status]>>
    ELSE [activities EXCEPT ![Len(activities)] =
             [deviceId |-> deviceId, description |-> description, status |-> status]]

createActivity(deviceId, description, status) ==
    Append(activities, [deviceId |-> deviceId, description |-> description,
                        status |-> status])

\* ---- HTTP responses ------------------------------------------------------
NoResponse == [route |-> "none", status |-> 0, message |-> ""]
Respond(route, status, message) == [route |-> route, status |-> status, message |-> message]
PostCommands == "POST /api/commands"
DeleteDevices == "DELETE /api/devices/:id"

\* ---- tasks ---------------------------------------------------------------
Task(kind, pc, ws, data, device, command) ==
    [kind |-> kind, pc |-> pc, ws |-> ws, data |-> data,
     device |-> device, command |-> command]

MayStart == budget > 0 /\ BagCardinality(tasks) < MaxInFlight
Suspend(t) == /\ tasks' = tasks (+) SetToBag({t})
              /\ budget' = budget - 1
Return     == /\ tasks' = tasks
              /\ budget' = budget - 1
Resume(t, pc)  == /\ tasks' = (tasks (-) SetToBag({t})) (+) SetToBag({[t EXCEPT !.pc = pc]})
                  /\ budget' = budget
Finish(t)  == /\ tasks' = tasks (-) SetToBag({t})
              /\ budget' = budget

\* The history of the send calls; only the specification of the order of the
\* writes records it.
NoSendLog    == [recording |-> FALSE, calls |-> 0, sent |-> [ws \in Conns |-> <<>>]]
EmptySendLog == [NoSendLog EXCEPT !.recording = TRUE]

\* Issue, were a message put ahead of the ones its socket already holds.
IssueAhead(out) ==
    IF ~sendLog.recording THEN sendLog
    ELSE [sendLog EXCEPT
             !.calls = @ + 1,
             !.sent = [ws \in Conns |->
                          IF out[ws] = <<>> THEN sendLog.sent[ws]
                          ELSE <<sendLog.calls + 1>> \o sendLog.sent[ws]]]

\* A broadcastToClients or sendToDevice call is issued: it is the next call,
\* and each socket it writes to (out) holds its message after the earlier ones.
Issue(out) ==
    IF ~sendLog.recording THEN sendLog
    ELSE [sendLog EXCEPT
             !.calls = @ + 1,
             !.sent = [ws \in Conns |->
                          IF out[ws] = <<>> THEN sendLog.sent[ws]
                          ELSE Append(sendLog.sent[ws], sendLog.calls + 1)]]

\* A broadcastToClients call, counted when it announces a device offline.
Broadcast(data, excludeClient) ==
    /\ written' = broadcastToClients(data, excludeClient)
    /\ sendLog' = Issue(broadcastToClients(data, excludeClient))
    /\ announced' =
          IF data.type = "DEVICE_STATUS_CHANGED" /\ data.deviceId \in DeviceIds
          THEN [announced EXCEPT ![data.deviceId] = data.status]
          ELSE announced
    /\ offlineBroadcasts' =
          IF data.type = "DEVICE_STATUS_CHANGED" /\ data.status = "offline"
             /\ data.deviceId \in DeviceIds
          THEN [offlineBroadcasts EXCEPT ![data.deviceId] = @ + 1]
          ELSE offlineBroadcasts

MarkedOnline(deviceId) ==
    /\ offlineBroadcasts' = [offlineBroadcasts EXCEPT ![deviceId] = 0]
    /\ closures' = [closures EXCEPT ![deviceId] = 0]

Init ==
    /\ connectedClients = <<>>
    /\ clientInfo = [ws \in Conns |-> [deviceId |-> NoId, userId |-> NoUser]]
    /\ readyState = [ws \in Conns |-> "NONE"]
    /\ devices = [d \in DeviceIds |-> [deviceId |-> d, status |-> "offline", info |-> "i0",
                                      lastActive |-> 0]]
    /\ commands = <<>>
    /\ activities = <<>>
    /\ written = Silence
    /\ tasks = EmptyBag
    /\ budget = MaxTasks
    /\ offlineBroadcasts = [d \in DeviceIds |-> 0]
    /\ closures = [d \in DeviceIds |-> 0]
    /\ delivery = <<>>
    /\ inbound = NoInbound
    /\ faulty = {}
    /\ ClientInit
    /\ response = NoResponse
    /\ announced = [d \in DeviceIds |-> "none"]
    /\ sendLog = NoSendLog

\* ---- the transport ------------------------------------------------------
\* wss.on('connection'): a new socket, its clientInfo pushed unbound.
Accept ==
    /\ inbound' = NoInbound
    /\ UNCHANGED clientVars
    /\ response' = NoResponse
    /\ UNCHANGED announced
    /\ UNCHANGED sendLog
    /\ UNCHANGED faulty
    /\ \E ws \in Conns :
          /\ readyState[ws] = "NONE"
          /\ \A w \in Conns : w < ws => readyState[w] # "NONE"
          /\ readyState' = [readyState EXCEPT ![ws] = "OPEN"]
          /\ connectedClients' = Append(connectedClients, ws)
    /\ UNCHANGED <<clientInfo, devices, commands, activities, tasks, budget,
                   offlineBroadcasts, closures, delivery>>
    /\ written' = Silence

\* The peer goes away: the socket leaves OPEN; its 'close' event is emitted
\* afterwards (OnClose), once.
TransportClose(ws) ==
    /\ inbound' = NoInbound
    /\ UNCHANGED clientVars
    /\ response' = NoResponse
    /\ UNCHANGED announced
    /\ UNCHANGED sendLog
    /\ UNCHANGED faulty
    /\ readyState[ws] = "OPEN"
    /\ readyState' = [readyState EXCEPT ![ws] = "CLOSING"]
    /\ closures' = IF clientInfo[ws].deviceId \in DeviceIds
                   THEN [closures EXCEPT ![clientInfo[ws].deviceId] = @ + 1]
                   ELSE closures
    /\ UNCHANGED <<connectedClients, clientInfo, devices, commands, activities, tasks, budget, offlineBroadcasts, delivery>>
    /\ written' = Silence

\* From now on send throws on this socket.
Break(ws) ==
    /\ readyState[ws] = "OPEN" /\ ws \notin faulty
    /\ faulty' = faulty \cup {ws}
    /\ inbound' = NoInbound
    /\ UNCHANGED clientVars
    /\ response' = NoResponse
    /\ UNCHANGED announced
    /\ UNCHANGED sendLog
    /\ written' = Silence
    /\ UNCHANGED <<connectedClients, clientInfo, readyState, devices, commands, activities,
                   tasks, budget, offlineBroadcasts, closures, delivery>>

\* ---- ws.on('message') ----------------------------------------------------
\* OnAuthDevice, were the earlier connections of the device unregistered.
OnAuthDeviceEvictingPrevious(ws, data) ==
    /\ inbound' = Receipt(ws, data)
    /\ UNCHANGED clientVars
    /\ response' = NoResponse
    /\ UNCHANGED announced
    /\ UNCHANGED sendLog
    /\ UNCHANGED faulty
    /\ MayStart /\ readyState[ws] = "OPEN"
    /\ data.type = "AUTH" /\ data.token
    /\ clientInfo' = [clientInfo EXCEPT ![ws].deviceId = data.deviceId]
    /\ connectedClients' =
          SelectSeq(connectedClients,
                    LAMBDA c : c = ws \/ clientInfo[c].deviceId # data.deviceId)
    /\ Suspend(Task("message", "auth_get", ws, data, getDeviceByDeviceId(data.deviceId), 0))
    /\ UNCHANGED <<readyState, devices, commands, activities, offlineBroadcasts, closures, delivery>>
    /\ written' = Silence

\* AUTH with a token: bind the connection, look the device up, suspend.
OnAuthDevice(ws, data) ==
    /\ inbound' = Receipt(ws, data)
    /\ UNCHANGED clientVars
    /\ response' = NoResponse
    /\ UNCHANGED announced
    /\ UNCHANGED sendLog
    /\ UNCHANGED faulty
    /\ MayStart /\ readyState[ws] = "OPEN"
    /\ data.type = "AUTH" /\ data.token
    /\ clientInfo' = [clientInfo EXCEPT ![ws].deviceId = data.deviceId]
    /\ Suspend(Task("message", "auth_get", ws, data, getDeviceByDeviceId(data.deviceId), 0))
    /\ UNCHANGED <<connectedClients, readyState, devices, commands, activities, offlineBroadcasts, closures, delivery>>
    /\ written' = Silence

\* AUTH without a token, with a userId: bind the user; no await.
\* OnAuthUser, were the user's arrival announced to the other connections.
OnAuthUserAnnouncing(ws, data) ==
    /\ inbound' = Receipt(ws, data)
    /\ UNCHANGED clientVars
    /\ response' = NoResponse
    /\ UNCHANGED announced
    /\ UNCHANGED faulty
    /\ MayStart /\ readyState[ws] = "OPEN"
    /\ data.type = "AUTH" /\ ~data.token /\ data.userId # NoUser
    /\ clientInfo' = [clientInfo EXCEPT ![ws].userId = data.userId]
    /\ Return
    /\ UNCHANGED <<connectedClients, readyState, devices, commands, activities, offlineBroadcasts, closures, delivery>>
    /\ written' = broadcastToClients(OutMsg("USER_CONNECTED", NoId, 0, "", ""), ws)
    /\ sendLog' = Issue(written')

OnAuthUser(ws, data) ==
    /\ inbound' = Receipt(ws, data)
    /\ UNCHANGED clientVars
    /\ response' = NoResponse
    /\ UNCHANGED announced
    /\ UNCHANGED sendLog
    /\ UNCHANGED faulty
    /\ MayStart /\ readyState[ws] = "OPEN"
    /\ data.type = "AUTH" /\ ~data.token /\ data.userId # NoUser
    /\ clientInfo' = [clientInfo EXCEPT ![ws].userId = data.userId]
    /\ Return
    /\ UNCHANGED <<connectedClients, readyState, devices, commands, activities, offlineBroadcasts, closures, delivery>>
    /\ written' = Silence

\* AUTH with neither a token nor a userId: neither branch is taken, whatever
\* deviceId the message carries; the handler ends.
\* OnAuthUnidentified, were the deviceId bound without a token.
OnAuthUnidentifiedBinding(ws, data) ==
    /\ inbound' = Receipt(ws, data)
    /\ UNCHANGED clientVars
    /\ response' = NoResponse
    /\ UNCHANGED announced
    /\ UNCHANGED sendLog
    /\ UNCHANGED faulty
    /\ MayStart /\ readyState[ws] = "OPEN"
    /\ data.type = "AUTH" /\ ~data.token /\ data.userId = NoUser
    /\ clientInfo' = [clientInfo EXCEPT ![ws].deviceId = data.deviceId]
    /\ Return
    /\ UNCHANGED <<connectedClients, readyState, devices, commands, activities,
                   offlineBroadcasts, closures, delivery>>
    /\ written' = Silence

OnAuthUnidentified(ws, data) ==
    /\ inbound' = Receipt(ws, data)
    /\ UNCHANGED clientVars
    /\ response' = NoResponse
    /\ UNCHANGED announced
    /\ UNCHANGED sendLog
    /\ UNCHANGED faulty
    /\ MayStart /\ readyState[ws] = "OPEN"
    /\ data.type = "AUTH" /\ ~data.token /\ data.userId = NoUser
    /\ Return
    /\ UNCHANGED <<connectedClients, clientInfo, readyState, devices, commands, activities,
                   offlineBroadcasts, closures, delivery>>
    /\ written' = Silence

AuthGot(t) ==
    /\ inbound' = NoInbound
    /\ UNCHANGED clientVars
    /\ response' = NoResponse
    /\ UNCHANGED announced
    /\ UNCHANGED sendLog
    /\ UNCHANGED faulty
    /\ t.kind = "message" /\ t.pc = "auth_get"
    /\ IF t.device # UndefinedDevice
       THEN /\ devices' = updateDeviceStatus(t.data.deviceId, "online")
            /\ MarkedOnline(t.data.deviceId)
            /\ Resume(t, "auth_upd")
       ELSE /\ Finish(t)
            /\ UNCHANGED <<devices, offlineBroadcasts, closures>>
    /\ UNCHANGED <<connectedClients, clientInfo, readyState, commands, activities, delivery>>
    /\ written' = Silence

\* AuthUpdated, were it to record the connection twice.
AuthUpdatedLoggingTwice(t) ==
    /\ inbound' = NoInbound
    /\ UNCHANGED clientVars
    /\ response' = NoResponse
    /\ UNCHANGED announced
    /\ UNCHANGED sendLog
    /\ UNCHANGED faulty
    /\ t.kind = "message" /\ t.pc = "auth_upd"
    /\ activities' = Append(createActivity(t.data.deviceId, "Device connected", "completed"),
                            [deviceId |-> t.data.deviceId, description |-> "Device connected",
                             status |-> "completed"])
    /\ Resume(t, "auth_act")
    /\ UNCHANGED <<connectedClients, clientInfo, readyState, devices, commands, offlineBroadcasts, closures, delivery>>
    /\ written' = Silence

AuthUpdated(t) ==
    /\ inbound' = NoInbound
    /\ UNCHANGED clientVars
    /\ response' = NoResponse
    /\ UNCHANGED announced
    /\ UNCHANGED sendLog
    /\ UNCHANGED faulty
    /\ t.kind = "message" /\ t.pc = "auth_upd"
    /\ activities' = createActivity(t.data.deviceId, "Device connected", "completed")
    /\ Resume(t, "auth_act")
    /\ UNCHANGED <<connectedClients, clientInfo, readyState, devices, commands, offlineBroadcasts, closures, delivery>>
    /\ written' = Silence

\* AuthLogged, were the pending commands of the device sent to it on connect.
AuthLoggedFlushingPending(t) ==
    /\ inbound' = NoInbound
    /\ UNCHANGED clientVars
    /\ response' = NoResponse
    /\ announced' = [announced EXCEPT ![t.data.deviceId] = "online"]
    /\ UNCHANGED faulty
    /\ t.kind = "message" /\ t.pc = "auth_act"
    /\ LET out == broadcastToClients(
                     OutMsg("DEVICE_STATUS_CHANGED", t.data.deviceId, 0, "online", ""), t.ws)
           pending == {k \in DOMAIN commands :
                          /\ commands[k].deviceId = t.data.deviceId
                          /\ commands[k].status = "pending"}
       IN written' = IF pending = {} THEN out
                     ELSE [out EXCEPT ![t.ws] =
                              <<OutMsg("COMMAND", t.data.deviceId, CHOOSE k \in pending : TRUE,
                                       "pending", "")>>]
    /\ UNCHANGED offlineBroadcasts
    /\ Finish(t)
    /\ UNCHANGED <<connectedClients, clientInfo, readyState, devices, commands, activities,
                   closures, delivery>>
    /\ sendLog' = Issue(written')

AuthLogged(t) ==
    /\ inbound' = NoInbound
    /\ UNCHANGED clientVars
    /\ response' = NoResponse
    /\ UNCHANGED faulty
    /\ t.kind = "message" /\ t.pc = "auth_act"
    /\ Broadcast(OutMsg("DEVICE_STATUS_CHANGED", t.data.deviceId, 0, "online", ""), t.ws)
    /\ Finish(t)
    /\ UNCHANGED <<connectedClients, clientInfo, readyState, devices, commands, activities,
                   closures, delivery>>

\* COMMAND_RESPONSE on a connection with a deviceId: updateCommand, suspend.
OnCommandResponse(ws, data) ==
    /\ inbound' = Receipt(ws, data)
    /\ UNCHANGED clientVars
    /\ response' = NoResponse
    /\ UNCHANGED announced
    /\ UNCHANGED sendLog
    /\ UNCHANGED faulty
    /\ MayStart /\ readyState[ws] = "OPEN"
    /\ data.type = "COMMAND_RESPONSE" /\ clientInfo[ws].deviceId # NoId
    /\ commands' = updateCommand(data.commandId, data.status, data.result)
    /\ Suspend(Task("message", "cr_upd", ws, data, UndefinedDevice,
                    IF data.commandId \in DOMAIN commands' THEN data.commandId ELSE 0))
    /\ UNCHANGED <<connectedClients, clientInfo, readyState, devices, activities, offlineBroadcasts, closures, delivery>>
    /\ written' = Silence

CrUpdated(t) ==
    /\ inbound' = NoInbound
    /\ UNCHANGED clientVars
    /\ response' = NoResponse
    /\ UNCHANGED announced
    /\ UNCHANGED sendLog
    /\ UNCHANGED faulty
    /\ t.kind = "message" /\ t.pc = "cr_upd"
    /\ IF t.command # 0
       THEN /\ activities' = createActivity(commands[t.command].deviceId,
                                            "Command response", t.data.status)
            /\ Resume(t, "cr_act")
       ELSE /\ Finish(t)
            /\ UNCHANGED activities
    /\ UNCHANGED <<connectedClients, clientInfo, readyState, devices, commands, offlineBroadcasts, closures, delivery>>
    /\ written' = Silence

\* CrLogged, were it to leave the responding connection out.
CrLoggedExcludingSender(t) ==
    /\ inbound' = NoInbound
    /\ UNCHANGED clientVars
    /\ response' = NoResponse
    /\ UNCHANGED faulty
    /\ t.kind = "message" /\ t.pc = "cr_act"
    /\ Broadcast(OutMsg("COMMAND_STATUS_CHANGED", NoId, t.data.commandId, t.data.status,
                        t.data.result), t.ws)
    /\ Finish(t)
    /\ UNCHANGED <<connectedClients, clientInfo, readyState, devices, commands, activities,
                   closures, delivery>>

CrLogged(t) ==
    /\ inbound' = NoInbound
    /\ UNCHANGED clientVars
    /\ response' = NoResponse
    /\ UNCHANGED faulty
    /\ t.kind = "message" /\ t.pc = "cr_act"
    /\ Broadcast(OutMsg("COMMAND_STATUS_CHANGED", NoId, t.data.commandId, t.data.status,
                        t.data.result), NoWs)
    /\ Finish(t)
    /\ UNCHANGED <<connectedClients, clientInfo, readyState, devices, commands, activities,
                   closures, delivery>>

\* DEVICE_INFO on a connection with a deviceId: look the device up, suspend.
OnDeviceInfo(ws, data) ==
    /\ inbound' = Receipt(ws, data)
    /\ UNCHANGED clientVars
    /\ response' = NoResponse
    /\ UNCHANGED announced
    /\ UNCHANGED sendLog
    /\ UNCHANGED faulty
    /\ MayStart /\ readyState[ws] = "OPEN"
    /\ data.type = "DEVICE_INFO" /\ clientInfo[ws].deviceId # NoId
    /\ Suspend(Task("message", "di_get", ws, data,
                    getDeviceByDeviceId(clientInfo[ws].deviceId), 0))
    /\ UNCHANGED <<connectedClients, clientInfo, readyState, devices, commands, activities,
                   offlineBroadcasts, closures, delivery>>
    /\ written' = Silence

DiGot(t) ==
    /\ inbound' = NoInbound
    /\ UNCHANGED clientVars
    /\ response' = NoResponse
    /\ UNCHANGED announced
    /\ UNCHANGED sendLog
    /\ UNCHANGED faulty
    /\ t.kind = "message" /\ t.pc = "di_get"
    /\ IF t.device # UndefinedDevice
       THEN /\ devices' = updateDevice(t.device.deviceId, t.data.info)
            /\ Resume(t, "di_upd")
       ELSE /\ Finish(t)
            /\ UNCHANGED devices
    /\ UNCHANGED <<connectedClients, clientInfo, readyState, commands, activities, offlineBroadcasts, closures, delivery>>
    /\ written' = Silence

DiUpdated(t) ==
    /\ inbound' = NoInbound
    /\ UNCHANGED clientVars
    /\ response' = NoResponse
    /\ UNCHANGED faulty
    /\ t.kind = "message" /\ t.pc = "di_upd"
    /\ Broadcast(OutMsg("DEVICE_INFO_UPDATED", clientInfo[t.ws].deviceId, 0, "",
                        t.data.info), NoWs)
    /\ Finish(t)
    /\ UNCHANGED <<connectedClients, clientInfo, readyState, devices, commands, activities,
                   closures, delivery>>

\* OnIgnored, were the response applied without a bound device.
OnIgnoredResolving(ws, data) ==
    /\ inbound' = Receipt(ws, data)
    /\ UNCHANGED clientVars
    /\ response' = NoResponse
    /\ UNCHANGED announced
    /\ UNCHANGED sendLog
    /\ UNCHANGED faulty
    /\ MayStart /\ readyState[ws] = "OPEN"
    /\ data.type \in {"COMMAND_RESPONSE", "DEVICE_INFO"} /\ clientInfo[ws].deviceId = NoId
    /\ Return
    /\ commands' = IF data.type = "COMMAND_RESPONSE"
                   THEN updateCommand(data.commandId, data.status, data.result)
                   ELSE commands
    /\ UNCHANGED <<connectedClients, clientInfo, readyState, devices, activities,
                   offlineBroadcasts, closures, delivery>>
    /\ written' = Silence

\* COMMAND_RESPONSE or DEVICE_INFO on a connection without a deviceId: no branch is taken.
OnIgnored(ws, data) ==
    /\ inbound' = Receipt(ws, data)
    /\ UNCHANGED clientVars
    /\ response' = NoResponse
    /\ UNCHANGED announced
    /\ UNCHANGED sendLog
    /\ UNCHANGED faulty
    /\ MayStart /\ readyState[ws] = "OPEN"
    /\ data.type \in {"COMMAND_RESPONSE", "DEVICE_INFO"} /\ clientInfo[ws].deviceId = NoId
    /\ Return
    /\ UNCHANGED <<connectedClients, clientInfo, readyState, devices, commands, activities,
                   offlineBroadcasts, closures, delivery>>
    /\ written' = Silence

\* OnDropped, were the connection dropped with the message.
OnDroppedUnregistering(ws, data) ==
    /\ inbound' = Receipt(ws, data)
    /\ UNCHANGED clientVars
    /\ response' = NoResponse
    /\ UNCHANGED announced
    /\ UNCHANGED sendLog
    /\ UNCHANGED faulty
    /\ MayStart /\ readyState[ws] = "OPEN"
    /\ data.type \notin {"AUTH", "COMMAND_RESPONSE", "DEVICE_INFO"}
    /\ Return
    /\ connectedClients' = FilterOut(connectedClients, ws)
    /\ UNCHANGED <<clientInfo, readyState, devices, commands, activities,
                   offlineBroadcasts, closures, delivery>>
    /\ written' = Silence

\* A message JSON.parse throws on (caught and logged), or one whose type is
\* none of AUTH, COMMAND_RESPONSE and DEVICE_INFO: the handler ends.
OnDropped(ws, data) ==
    /\ inbound' = Receipt(ws, data)
    /\ UNCHANGED clientVars
    /\ response' = NoResponse
    /\ UNCHANGED announced
    /\ UNCHANGED sendLog
    /\ UNCHANGED faulty
    /\ MayStart /\ readyState[ws] = "OPEN"
    /\ data.type \notin {"AUTH", "COMMAND_RESPONSE", "DEVICE_INFO"}
    /\ Return
    /\ UNCHANGED <<connectedClients, clientInfo, readyState, devices, commands, activities,
                   offlineBroadcasts, closures, delivery>>
    /\ written' = Silence

\* ---- ws.on('close') ------------------------------------------------------
OnClose(ws) ==
    /\ inbound' = NoInbound
    /\ UNCHANGED clientVars
    /\ response' = NoResponse
    /\ UNCHANGED announced
    /\ UNCHANGED sendLog
    /\ UNCHANGED faulty
    /\ MayStart /\ readyState[ws] = "CLOSING"
    /\ readyState' = [readyState EXCEPT ![ws] = "CLOSED"]
    /\ IF clientInfo[ws].deviceId # NoId
       THEN /\ devices' = updateDeviceStatus(clientInfo[ws].deviceId, "offline")
            /\ Suspend(Task("close", "close_upd", ws, NoData, UndefinedDevice, 0))
            /\ UNCHANGED connectedClients
       ELSE /\ connectedClients' = FilterOut(connectedClients, ws)
            /\ Return
            /\ UNCHANGED devices
    /\ UNCHANGED <<clientInfo, commands, activities, offlineBroadcasts, closures,
                   delivery>>
    /\ written' = Silence

CloseUpdated(t) ==
    /\ inbound' = NoInbound
    /\ UNCHANGED clientVars
    /\ response' = NoResponse
    /\ UNCHANGED announced
    /\ UNCHANGED sendLog
    /\ UNCHANGED faulty
    /\ t.kind = "close" /\ t.pc = "close_upd"
    /\ activities' = createActivity(clientInfo[t.ws].deviceId, "Device disconnected",
                                    "completed")
    /\ Resume(t, "close_act")
    /\ UNCHANGED <<connectedClients, clientInfo, readyState, devices, commands, offlineBroadcasts, closures, delivery>>
    /\ written' = Silence

\* CloseLogged, were it to leave the connection in the list.
CloseLoggedKeepingClient(t) ==
    /\ inbound' = NoInbound
    /\ UNCHANGED clientVars
    /\ response' = NoResponse
    /\ UNCHANGED faulty
    /\ t.kind = "close" /\ t.pc = "close_act"
    /\ Broadcast(OutMsg("DEVICE_STATUS_CHANGED", clientInfo[t.ws].deviceId, 0, "offline",
                        ""), NoWs)
    /\ Finish(t)
    /\ UNCHANGED <<connectedClients, clientInfo, readyState, devices, commands, activities,
                   closures, delivery>>

CloseLogged(t) ==
    /\ inbound' = NoInbound
    /\ UNCHANGED clientVars
    /\ response' = NoResponse
    /\ UNCHANGED faulty
    /\ t.kind = "close" /\ t.pc = "close_act"
    /\ Broadcast(OutMsg("DEVICE_STATUS_CHANGED", clientInfo[t.ws].deviceId, 0, "offline",
                        ""), NoWs)
    /\ connectedClients' = IF BroadcastThrows(NoWs) THEN connectedClients
                           ELSE FilterOut(connectedClients, t.ws)
    /\ Finish(t)
    /\ UNCHANGED <<clientInfo, readyState, devices, commands, activities, closures,
                   delivery>>

\* ---- POST /api/commands --------------------------------------------------
PostCommand(deviceId) ==
    /\ inbound' = NoInbound
    /\ UNCHANGED clientVars
    /\ response' = NoResponse
    /\ UNCHANGED announced
    /\ UNCHANGED sendLog
    /\ UNCHANGED faulty
    /\ MayStart
    /\ Len(commands) + Cardinality({t \in BagToSet(tasks) : t.pc = "post_get"}) < MaxCommands
    /\ Suspend(Task("post", "post_get", NoWs, [NoData EXCEPT !.deviceId = deviceId],
                    getDeviceByDeviceId(deviceId), 0))
    /\ UNCHANGED <<connectedClients, clientInfo, readyState, devices, commands, activities,
                   offlineBroadcasts, closures, delivery>>
    /\ written' = Silence

\* PostGot, were the command created without the device check.
PostGotUnchecked(t) ==
    /\ inbound' = NoInbound
    /\ UNCHANGED clientVars
    /\ response' = NoResponse
    /\ UNCHANGED announced
    /\ UNCHANGED sendLog
    /\ UNCHANGED faulty
    /\ t.kind = "post" /\ t.pc = "post_get"
    /\ commands' = createCommand(t.data.deviceId)
    /\ delivery' = Append(delivery, "unsent")
    /\ tasks' = (tasks (-) SetToBag({t})) (+)
                 SetToBag({[t EXCEPT !.pc = "post_create", !.command = Len(commands) + 1]})
    /\ budget' = budget
    /\ UNCHANGED <<connectedClients, clientInfo, readyState, devices, activities, offlineBroadcasts, closures>>
    /\ written' = Silence

PostGot(t) ==
    /\ inbound' = NoInbound
    /\ UNCHANGED clientVars
    /\ response' = IF t.device = UndefinedDevice
                    THEN Respond(PostCommands, 404, "Device not found")
                    ELSE NoResponse
    /\ UNCHANGED announced
    /\ UNCHANGED sendLog
    /\ UNCHANGED faulty
    /\ t.kind = "post" /\ t.pc = "post_get"
    /\ IF t.device = UndefinedDevice
       THEN /\ Finish(t)
            /\ UNCHANGED <<commands, delivery>>
       ELSE /\ commands' = createCommand(t.data.deviceId)
            /\ delivery' = Append(delivery, "unsent")
            /\ tasks' = (tasks (-) SetToBag({t})) (+)
                         SetToBag({[t EXCEPT !.pc = "post_create",
                                             !.command = Len(commands) + 1]})
            /\ budget' = budget
    /\ UNCHANGED <<connectedClients, clientInfo, readyState, devices, activities, offlineBroadcasts, closures>>
    /\ written' = Silence

PostCreated(t) ==
    /\ inbound' = NoInbound
    /\ UNCHANGED clientVars
    /\ response' = NoResponse
    /\ UNCHANGED announced
    /\ UNCHANGED sendLog
    /\ UNCHANGED faulty
    /\ t.kind = "post" /\ t.pc = "post_create"
    /\ activities' = createActivity(t.data.deviceId, "Command created", "pending")
    /\ Resume(t, "post_act")
    /\ UNCHANGED <<connectedClients, clientInfo, readyState, devices, commands, offlineBroadcasts, closures, delivery>>
    /\ written' = Silence

\* PostLogged, were it to resolve an undeliverable command as failed.
PostLoggedFailingCommand(t) ==
    /\ inbound' = NoInbound
    /\ UNCHANGED clientVars
    /\ UNCHANGED announced
    /\ UNCHANGED faulty
    /\ t.kind = "post" /\ t.pc = "post_act"
    /\ LET r == sendToDevice(t.data.deviceId,
                             OutMsg("COMMAND", t.data.deviceId, t.command, "pending", ""))
       IN /\ written' = r.written
          /\ sendLog' = Issue(r.written)
          /\ response' = IF r.threw
                          THEN Respond(PostCommands, 500, "Failed to create command")
                          ELSE IF ~r.delivered /\ t.device.status = "online" THEN NoResponse
                          ELSE Respond(PostCommands, 201, "")
          /\ delivery' = [delivery EXCEPT ![t.command] =
                             IF r.delivered THEN "delivered"
                             ELSE IF r.threw THEN "threw" ELSE "failed"]
          /\ commands' = IF r.delivered THEN commands
                         ELSE [commands EXCEPT ![t.command].status = "failed"]
          /\ IF ~r.threw /\ ~r.delivered /\ t.device.status = "online"
             THEN /\ devices' = updateDeviceStatus(t.data.deviceId, "offline")
                  /\ Resume(t, "post_upd")
             ELSE /\ Finish(t)
                  /\ UNCHANGED devices
    /\ UNCHANGED <<connectedClients, clientInfo, readyState, activities,
                   offlineBroadcasts, closures>>

PostLogged(t) ==
    /\ inbound' = NoInbound
    /\ UNCHANGED clientVars
    /\ UNCHANGED announced
    /\ UNCHANGED faulty
    /\ t.kind = "post" /\ t.pc = "post_act"
    /\ LET r == sendToDevice(t.data.deviceId,
                             OutMsg("COMMAND", t.data.deviceId, t.command, "pending", ""))
       IN /\ written' = r.written
          /\ sendLog' = Issue(r.written)
          /\ response' = IF r.threw
                          THEN Respond(PostCommands, 500, "Failed to create command")
                          ELSE IF ~r.delivered /\ t.device.status = "online" THEN NoResponse
                          ELSE Respond(PostCommands, 201, "")
          /\ delivery' = [delivery EXCEPT ![t.command] =
                             IF r.delivered THEN "delivered"
                             ELSE IF r.threw THEN "threw" ELSE "failed"]
          /\ IF ~r.threw /\ ~r.delivered /\ t.device.status = "online"
             THEN /\ devices' = updateDeviceStatus(t.data.deviceId, "offline")
                  /\ Resume(t, "post_upd")
             ELSE /\ Finish(t)
                  /\ UNCHANGED devices
    /\ UNCHANGED <<connectedClients, clientInfo, readyState, commands, activities,
                   offlineBroadcasts, closures>>

PostUpdated(t) ==
    /\ inbound' = NoInbound
    /\ UNCHANGED clientVars
    /\ response' = IF BroadcastThrows(NoWs)
                    THEN Respond(PostCommands, 500, "Failed to create command")
                    ELSE Respond(PostCommands, 201, "")
    /\ UNCHANGED faulty
    /\ t.kind = "post" /\ t.pc = "post_upd"
    /\ Broadcast(OutMsg("DEVICE_STATUS_CHANGED", t.data.deviceId, 0, "offline", ""), NoWs)
    /\ Finish(t)
    /\ UNCHANGED <<connectedClients, clientInfo, readyState, devices, commands, activities,
                   closures, delivery>>

\* ---- DELETE /api/devices/:id ---------------------------------------------
DeleteDevice(id) ==
    /\ inbound' = NoInbound
    /\ UNCHANGED clientVars
    /\ response' = NoResponse
    /\ UNCHANGED announced
    /\ UNCHANGED sendLog
    /\ UNCHANGED faulty
    /\ MayStart
    /\ Suspend(Task("delete", "del_get", NoWs, NoData, getDeviceById(id), 0))
    /\ UNCHANGED <<connectedClients, clientInfo, readyState, devices, commands, activities,
                   offlineBroadcasts, closures, delivery>>
    /\ written' = Silence

DelGot(t) ==
    /\ inbound' = NoInbound
    /\ UNCHANGED clientVars
    /\ response' = IF t.device = UndefinedDevice
                    THEN Respond(DeleteDevices, 404, "Device not found")
                    ELSE NoResponse
    /\ UNCHANGED announced
    /\ UNCHANGED sendLog
    /\ UNCHANGED faulty
    /\ t.kind = "delete" /\ t.pc = "del_get"
    /\ IF t.device = UndefinedDevice
       THEN /\ Finish(t)
            /\ UNCHANGED devices
       ELSE /\ devices' = removeDevice(t.device.deviceId)
            /\ Resume(t, "del_rm")
    /\ UNCHANGED <<connectedClients, clientInfo, readyState, commands, activities, offlineBroadcasts, closures, delivery>>
    /\ written' = Silence

DelRemoved(t) ==
    /\ inbound' = NoInbound
    /\ UNCHANGED clientVars
    /\ response' = NoResponse
    /\ UNCHANGED announced
    /\ UNCHANGED sendLog
    /\ UNCHANGED faulty
    /\ t.kind = "delete" /\ t.pc = "del_rm"
    /\ activities' = createActivity(t.device.deviceId, "Device removed", "completed")
    /\ Resume(t, "del_act")
    /\ UNCHANGED <<connectedClients, clientInfo, readyState, devices, commands, offlineBroadcasts, closures, delivery>>
    /\ written' = Silence

DelLogged(t) ==
    /\ inbound' = NoInbound
    /\ UNCHANGED clientVars
    /\ response' = IF BroadcastThrows(NoWs)
                    THEN Respond(DeleteDevices, 500, "Failed to remove device")
                    ELSE Respond(DeleteDevices, 200, "Device removed successfully")
    /\ UNCHANGED faulty
    /\ t.kind = "delete" /\ t.pc = "del_act"
    /\ Broadcast(OutMsg("DEVICE_REMOVED", t.device.deviceId, 0, "", ""), NoWs)
    /\ Finish(t)
    /\ UNCHANGED <<connectedClients, clientInfo, readyState, devices, commands, activities,
                   closures, delivery>>

\* ---- the system ----------------------------------------------------------
Next ==
    \/ Accept
    \/ \E ws \in Registered : TransportClose(ws)
    \/ \E ws \in Registered, data \in Messages : OnAuthDevice(ws, data)
    \/ \E ws \in Registered, data \in Messages : OnAuthUser(ws, data)
    \/ \E ws \in Registered, data \in Messages : OnAuthUnidentified(ws, data)
    \/ \E ws \in Registered, data \in Messages : OnCommandResponse(ws, data)
    \/ \E ws \in Registered, data \in Messages : OnDeviceInfo(ws, data)
    \/ \E ws \in Registered, data \in Messages : OnIgnored(ws, data)
    \/ \E ws \in Registered, data \in DroppedMessages : OnDropped(ws, data)
    \/ \E ws \in Registered : OnClose(ws)
    \/ \E d \in DeviceIds : PostCommand(d)
    \/ \E d \in DeviceIds : DeleteDevice(d)
    \/ \E t \in BagToSet(tasks) : AuthGot(t)
    \/ \E t \in BagToSet(tasks) : AuthUpdated(t)
    \/ \E t \in BagToSet(tasks) : AuthLogged(t)
    \/ \E t \in BagToSet(tasks) : CrUpdated(t)
    \/ \E t \in BagToSet(tasks) : CrLogged(t)
    \/ \E t \in BagToSet(tasks) : DiGot(t)
    \/ \E t \in BagToSet(tasks) : DiUpdated(t)
    \/ \E t \in BagToSet(tasks) : CloseUpdated(t)
    \/ \E t \in BagToSet(tasks) : CloseLogged(t)
    \/ \E t \in BagToSet(tasks) : PostGot(t)
    \/ \E t \in BagToSet(tasks) : PostCreated(t)
    \/ \E t \in BagToSet(tasks) : PostLogged(t)
    \/ \E t \in BagToSet(tasks) : PostUpdated(t)
    \/ \E t \in BagToSet(tasks) : DelGot(t)
    \/ \E t \in BagToSet(tasks) : DelRemoved(t)
    \/ \E t \in BagToSet(tasks) : DelLogged(t)

Spec == Init /\ [][Next]_vars

\* The command life cycle alone (connections, device AUTH, dispatch, responses),
\* with room for one more handler.
InitCommands ==
    /\ connectedClients = <<>>
    /\ clientInfo = [ws \in Conns |-> [deviceId |-> NoId, userId |-> NoUser]]
    /\ readyState = [ws \in Conns |-> "NONE"]
    /\ devices = [d \in DeviceIds |-> [deviceId |-> d, status |-> "offline", info |-> "i0",
                                      lastActive |-> 0]]
    /\ commands = <<>>
    /\ activities = <<>>
    /\ written = Silence
    /\ tasks = EmptyBag
    /\ budget = MaxCommandTasks
    /\ offlineBroadcasts = [d \in DeviceIds |-> 0]
    /\ closures = [d \in DeviceIds |-> 0]
    /\ delivery = <<>>
    /\ inbound = NoInbound
    /\ faulty = {}
    /\ ClientInit
    /\ response = NoResponse
    /\ announced = [d \in DeviceIds |-> "none"]
    /\ sendLog = NoSendLog

NextCommands ==
    \/ Accept
    \/ \E ws \in Registered, data \in Messages : OnAuthDevice(ws, data)
    \/ \E ws \in Registered, data \in Messages : OnCommandResponse(ws, data)
    \/ \E d \in DeviceIds : PostCommand(d)
    \/ \E t \in BagToSet(tasks) : AuthGot(t)
    \/ \E t \in BagToSet(tasks) : AuthUpdated(t)
    \/ \E t \in BagToSet(tasks) : AuthLogged(t)
    \/ \E t \in BagToSet(tasks) : CrUpdated(t)
    \/ \E t \in BagToSet(tasks) : CrLogged(t)
    \/ \E t \in BagToSet(tasks) : PostGot(t)
    \/ \E t \in BagToSet(tasks) : PostCreated(t)
    \/ \E t \in BagToSet(tasks) : PostLogged(t)
    \/ \E t \in BagToSet(tasks) : PostUpdated(t)

SpecCommands == InitCommands /\ [][NextCommands]_vars

\* Connections, device AUTH and disconnection, under the scheduling of the
\* event loop: a closed transport's 'close' event is delivered and a suspended
\* handler is resumed.  A message handler is started only while the bound on
\* handlers leaves room for the close handler of every socket.
InitClose ==
    /\ connectedClients = <<>>
    /\ clientInfo = [ws \in Conns |-> [deviceId |-> NoId, userId |-> NoUser]]
    /\ readyState = [ws \in Conns |-> "NONE"]
    /\ devices = [d \in DeviceIds |-> [deviceId |-> d, status |-> "offline", info |-> "i0",
                                      lastActive |-> 0]]
    /\ commands = <<>>
    /\ activities = <<>>
    /\ written = Silence
    /\ tasks = EmptyBag
    /\ budget = MaxCloseTasks
    /\ offlineBroadcasts = [d \in DeviceIds |-> 0]
    /\ closures = [d \in DeviceIds |-> 0]
    /\ delivery = <<>>
    /\ inbound = NoInbound
    /\ faulty = {}
    /\ ClientInit
    /\ response = NoResponse
    /\ announced = [d \in DeviceIds |-> "none"]
    /\ sendLog = NoSendLog

Unclosed == {ws \in Conns : readyState[ws] # "CLOSED"}
Spare == budget > Cardinality(Unclosed)

NextClose ==
    \/ Accept
    \/ \E ws \in Registered : TransportClose(ws)
    \/ \E ws \in Registered, data \in Messages : Spare /\ OnAuthDevice(ws, data)
    \/ \E ws \in Registered : OnClose(ws)
    \/ \E t \in BagToSet(tasks) : AuthGot(t)
    \/ \E t \in BagToSet(tasks) : AuthUpdated(t)
    \/ \E t \in BagToSet(tasks) : AuthLogged(t)
    \/ \E t \in BagToSet(tasks) : CloseUpdated(t)
    \/ \E t \in BagToSet(tasks) : CloseLogged(t)

FairClose ==
    /\ WF_vars(\E ws \in Registered : OnClose(ws))
    /\ WF_vars(\E t \in BagToSet(tasks) : AuthGot(t))
    /\ WF_vars(\E t \in BagToSet(tasks) : AuthUpdated(t))
    /\ WF_vars(\E t \in BagToSet(tasks) : AuthLogged(t))
    /\ WF_vars(\E t \in BagToSet(tasks) : CloseUpdated(t))
    /\ WF_vars(\E t \in BagToSet(tasks) : CloseLogged(t))

SpecClose == InitClose /\ [][NextClose]_vars /\ FairClose

\* Connections, device AUTH, DEVICE_INFO and disconnection, with sockets whose
\* send throws.
InitFaults ==
    /\ connectedClients = <<>>
    /\ clientInfo = [ws \in Conns |-> [deviceId |-> NoId, userId |-> NoUser]]
    /\ readyState = [ws \in Conns |-> "NONE"]
    /\ devices = [d \in DeviceIds |-> [deviceId |-> d, status |-> "offline", info |-> "i0",
                                      lastActive |-> 0]]
    /\ commands = <<>>
    /\ activities = <<>>
    /\ written = Silence
    /\ tasks = EmptyBag
    /\ budget = MaxFaultTasks
    /\ offlineBroadcasts = [d \in DeviceIds |-> 0]
    /\ closures = [d \in DeviceIds |-> 0]
    /\ delivery = <<>>
    /\ inbound = NoInbound
    /\ faulty = {}
    /\ ClientInit
    /\ response = NoResponse
    /\ announced = [d \in DeviceIds |-> "none"]
    /\ sendLog = NoSendLog

NextFaults ==
    \/ Accept
    \/ \E ws \in Registered : Break(ws)
    \/ \E ws \in Registered : TransportClose(ws)
    \/ \E ws \in Registered, data \in Messages : OnAuthDevice(ws, data)
    \/ \E ws \in Registered, data \in Messages : OnDeviceInfo(ws, data)
    \/ \E ws \in Registered : OnClose(ws)
    \/ \E t \in BagToSet(tasks) : AuthGot(t)
    \/ \E t \in BagToSet(tasks) : AuthUpdated(t)
    \/ \E t \in BagToSet(tasks) : AuthLogged(t)
    \/ \E t \in BagToSet(tasks) : DiGot(t)
    \/ \E t \in BagToSet(tasks) : DiUpdated(t)
    \/ \E t \in BagToSet(tasks) : CloseUpdated(t)
    \/ \E t \in BagToSet(tasks) : CloseLogged(t)

SpecFaults == InitFaults /\ [][NextFaults]_vars

\* Connections, device AUTH, DEVICE_INFO, command dispatch and disconnection,
\* with the history of the send calls recorded.
InitFifo ==
    /\ connectedClients = <<>>
    /\ clientInfo = [ws \in Conns |-> [deviceId |-> NoId, userId |-> NoUser]]
    /\ readyState = [ws \in Conns |-> "NONE"]
    /\ devices = [d \in DeviceIds |-> [deviceId |-> d, status |-> "offline", info |-> "i0",
                                      lastActive |-> 0]]
    /\ commands = <<>>
    /\ activities = <<>>
    /\ written = Silence
    /\ tasks = EmptyBag
    /\ budget = MaxFifoTasks
    /\ offlineBroadcasts = [d \in DeviceIds |-> 0]
    /\ closures = [d \in DeviceIds |-> 0]
    /\ delivery = <<>>
    /\ inbound = NoInbound
    /\ faulty = {}
    /\ ClientInit
    /\ response = NoResponse
    /\ announced = [d \in DeviceIds |-> "none"]
    /\ sendLog = EmptySendLog

NextFifo ==
    \/ Accept
    \/ \E ws \in Registered : TransportClose(ws)
    \/ \E ws \in Registered, data \in Messages : OnAuthDevice(ws, data)
    \/ \E ws \in Registered, data \in Messages : OnDeviceInfo(ws, data)
    \/ \E ws \in Registered : OnClose(ws)
    \/ \E d \in DeviceIds : PostCommand(d)
    \/ \E t \in BagToSet(tasks) : AuthGot(t)
    \/ \E t \in BagToSet(tasks) : AuthUpdated(t)
    \/ \E t \in BagToSet(tasks) : AuthLogged(t)
    \/ \E t \in BagToSet(tasks) : DiGot(t)
    \/ \E t \in BagToSet(tasks) : DiUpdated(t)
    \/ \E t \in BagToSet(tasks) : CloseUpdated(t)
    \/ \E t \in BagToSet(tasks) : CloseLogged(t)
    \/ \E t \in BagToSet(tasks) : PostGot(t)
    \/ \E t \in BagToSet(tasks) : PostCreated(t)
    \/ \E t \in BagToSet(tasks) : PostLogged(t)
    \/ \E t \in BagToSet(tasks) : PostUpdated(t)

SpecFifo == InitFifo /\ [][NextFifo]_vars

\* ---- the dashboard client: SocketClient ----------------------------------
NewSocket == [readyState |-> "CONNECTING", auth |-> FALSE]
IsOpen(i) == i # NoSocket /\ webSockets[i].readyState = "OPEN"

\* WebSocket.close() on socket i of sockets: a socket that is connecting or
\* open starts closing; null?.close() does nothing.
wsClose(sockets, i) ==
    IF i # NoSocket /\ sockets[i].readyState \in {"CONNECTING", "OPEN"}
    THEN [sockets EXCEPT ![i].readyState = "CLOSING"]
    ELSE sockets

\* connect(), were isConnecting not looked at.
connectIgnoringIsConnecting ==
    IF IsOpen(socket)
    THEN UNCHANGED <<socket, webSockets, isConnecting>>
    ELSE /\ Len(webSockets) < MaxSockets
         /\ isConnecting' = TRUE
         /\ webSockets' = Append(webSockets, NewSocket)
         /\ socket' = Len(webSockets) + 1

\* connect(): nothing while the socket is open or a connection is being made;
\* else a new WebSocket with its four handlers.
connect ==
    IF IsOpen(socket) \/ isConnecting
    THEN UNCHANGED <<socket, webSockets, isConnecting>>
    ELSE /\ Len(webSockets) < MaxSockets
         /\ isConnecting' = TRUE
         /\ webSockets' = Append(webSockets, NewSocket)
         /\ socket' = Len(webSockets) + 1

\* reconnect(): one timer, unless one is pending.
reconnect ==
    IF reconnectTimer # NoTimer
    THEN UNCHANGED <<reconnectTimer, timers>>
    ELSE /\ TimerIds \ timers # {}
         /\ LET id == CHOOSE id \in TimerIds \ timers : TRUE
            IN /\ reconnectTimer' = id
               /\ timers' = timers \cup {id}

\* clearTimeout(reconnectTimer); reconnectTimer = null
clearReconnectTimer ==
    /\ timers' = timers \ {reconnectTimer}
    /\ reconnectTimer' = NoTimer

\* A socket is closed by the network only while the client may still create
\* the socket of the retry.
RoomToRetry == Len(webSockets) < MaxSockets

\* The page calls socketClient.connect().
PageConnect ==
    /\ fired' = Fired("connect", NoSocket)
    /\ connect
    /\ closeCalled' = FALSE
    /\ UNCHANGED <<reconnectTimer, timers, authRequested>>
    /\ UNCHANGED serverVars

\* send(message): written to the socket if it is open; else dropped, and
\* connect().  authenticate(userId) is send({type: "AUTH", userId}).
Send(type) ==
    /\ fired' = Fired("send", socket)
    /\ IF IsOpen(socket)
       THEN /\ webSockets' = [webSockets EXCEPT ![socket].auth = @ \/ type = "AUTH"]
            /\ UNCHANGED <<socket, isConnecting>>
       ELSE connect
    /\ closeCalled' = FALSE
    /\ UNCHANGED <<reconnectTimer, timers, authRequested>>
    /\ UNCHANGED serverVars

\* HomePage useEffect: socketClient.connect(); socketClient.authenticate(user.id)
\* in one task.  After connect() the socket is open only if it was open
\* before; otherwise the AUTH message is dropped and send's connect() finds
\* isConnecting set.
PageSetup ==
    /\ fired' = Fired("setup", socket)
    /\ IF IsOpen(socket)
       THEN /\ webSockets' = [webSockets EXCEPT ![socket].auth = TRUE]
            /\ UNCHANGED <<socket, isConnecting>>
       ELSE connect
    /\ closeCalled' = FALSE
    /\ authRequested' = TRUE
    /\ UNCHANGED <<reconnectTimer, timers>>
    /\ UNCHANGED serverVars

\* close(): closes and forgets the socket, clears the timer.
PageClose ==
    /\ fired' = Fired("close", socket)
    /\ webSockets' = wsClose(webSockets, socket)
    /\ socket' = NoSocket
    /\ clearReconnectTimer
    /\ closeCalled' = TRUE
    /\ UNCHANGED <<isConnecting, authRequested>>
    /\ UNCHANGED serverVars

\* The open event of socket i: onopen.
SocketOpens(i) ==
    /\ webSockets[i].readyState = "CONNECTING"
    /\ fired' = Fired("open", i)
    /\ webSockets' = [webSockets EXCEPT ![i].readyState = "OPEN"]
    /\ isConnecting' = FALSE
    /\ clearReconnectTimer
    /\ UNCHANGED <<socket, closeCalled, authRequested>>
    /\ UNCHANGED serverVars

\* Socket i fails: it is closed, and its error and close events are fired in
\* one task.  onerror closes the client's current socket; onclose follows.
SocketFails(i) ==
    /\ webSockets[i].readyState # "CLOSED"
    /\ RoomToRetry
    /\ fired' = Fired("closed", i)
    /\ webSockets' = wsClose([webSockets EXCEPT ![i].readyState = "CLOSED"], socket)
    /\ isConnecting' = FALSE
    /\ reconnect
    /\ UNCHANGED <<socket, closeCalled, authRequested>>
    /\ UNCHANGED serverVars

\* The close event of socket i, closed by the server or after close(): onclose.
SocketCloses(i) ==
    /\ webSockets[i].readyState \in {"OPEN", "CLOSING"}
    /\ RoomToRetry
    /\ fired' = Fired("closed", i)
    /\ webSockets' = [webSockets EXCEPT ![i].readyState = "CLOSED"]
    /\ isConnecting' = FALSE
    /\ reconnect
    /\ UNCHANGED <<socket, closeCalled, authRequested>>
    /\ UNCHANGED serverVars

\* The reconnect timer fires: reconnectTimer = null; connect().
TimerFires(id) ==
    /\ fired' = Fired("timer", NoSocket)
    /\ timers' = timers \ {id}
    /\ reconnectTimer' = NoTimer
    /\ connect
    /\ UNCHANGED <<closeCalled, authRequested>>
    /\ UNCHANGED serverVars

NextClient ==
    \/ PageConnect
    \/ PageSetup
    \/ \E type \in {"AUTH", "REMOTE_MOUSE_CLICK"} : Send(type)
    \/ PageClose
    \/ \E i \in DOMAIN webSockets : SocketOpens(i)
    \/ \E i \in DOMAIN webSockets : SocketFails(i)
    \/ \E i \in DOMAIN webSockets : SocketCloses(i)
    \/ \E id \in timers : TimerFires(id)

\* The browser runs a pending timer.
FairClient == WF_vars(\E id \in timers : TimerFires(id))

SpecClient == Init /\ [][NextClient]_vars /\ FairClient

\* The client without close(): connect(), send(), the page's set-up, socket
\* events and timer firings.
NextClientOpen ==
    \/ PageConnect
    \/ PageSetup
    \/ \E type \in {"AUTH", "REMOTE_MOUSE_CLICK"} : Send(type)
    \/ \E i \in DOMAIN webSockets : SocketOpens(i)
    \/ \E i \in DOMAIN webSockets : SocketFails(i)
    \/ \E i \in DOMAIN webSockets : SocketCloses(i)
    \/ \E id \in timers : TimerFires(id)

SpecClientOpen == Init /\ [][NextClientOpen]_vars /\ FairClient

\* ---- properties -----------------------------------------------------------
Quiet == tasks = EmptyBag
Stepped(t) == CopiesIn(t, tasks') < CopiesIn(t, tasks)
Started(t) == CopiesIn(t, tasks') > CopiesIn(t, tasks)
StatusChanged(deviceId, status) ==
    OutMsg("DEVICE_STATUS_CHANGED", deviceId, 0, status, "")
BroadcastPcs == {"auth_act", "cr_act", "di_upd", "close_act", "post_upd", "del_act"}

\* C1: every device whose stored status is "online" has a registered
\* connection whose deviceId is that device's.
C1_OnlineHasConnection ==
    \A d \in DeviceIds : devices[d].status = "online" => BoundTo(d) # {}

\* C2: once the one connection of a device that closed since the device was
\* last marked online has been cleaned up and no handler is in flight, the
\* stored status is "offline" and exactly one DEVICE_STATUS_CHANGED{offline}
\* was broadcast for the device, a failed dispatch notwithstanding.
C2_OneOfflineBroadcastPerClose ==
    \A d \in DeviceIds :
        (/\ devices[d] # UndefinedDevice
         /\ closures[d] = 1
         /\ BoundTo(d) = {}
         /\ Quiet)
        => /\ devices[d].status = "offline"
           /\ offlineBroadcasts[d] = 1

\* C3: a command whose stored status is "completed" or "failed" never changes
\* again (status, result, completedAt).
C3_TerminalIsFinal ==
    [][\A k \in DOMAIN commands :
          commands[k].status \in Terminal => commands'[k] = commands[k]]_vars

\* C4: a command leaves "pending" only in the step that handles a
\* COMMAND_RESPONSE naming it, received on a connection bound to the command's
\* own target deviceId.
C4_ResolvedByOwnDevice ==
    [][\A k \in DOMAIN commands :
          (commands[k].status = "pending" /\ commands'[k].status # "pending")
          => \E t \in BagToSet(tasks') :
                /\ Started(t) /\ t.pc = "cr_upd" /\ t.data.commandId = k
                /\ clientInfo[t.ws].deviceId = commands[k].deviceId]_vars

\* C5: a broadcastToClients(data, h) call writes nothing to h and writes the
\* same one message to every other registered connection whose transport is
\* OPEN at the call, and to nobody else.
C5_BroadcastExactlyOnce ==
    [][\A t \in BagToSet(tasks) :
          (Stepped(t) /\ t.pc \in BroadcastPcs)
          => LET h == IF t.pc = "auth_act" THEN t.ws ELSE NoWs
                 to == {ws \in Registered : ws # h /\ readyState[ws] = "OPEN"}
             IN /\ \A ws \in to : Len(written'[ws]) = 1
                /\ \A ws \in Conns \ to : written'[ws] = <<>>
                /\ \A a, b \in to : written'[a] = written'[b]]_vars

\* C5 witness: the online broadcast of connection 1's AUTH reached connection 2
\* and not connection 1.
C5_Witness ==
    /\ clientInfo[1].deviceId = "D1"
    /\ readyState[1] = "OPEN" /\ readyState[2] = "OPEN"
    /\ written[2] = <<StatusChanged("D1", "online")>>
    /\ written[1] = <<>>

\* C6: the sendToDevice of a dispatch returns false whenever no registered
\* connection is bound to the deviceId, and returns true only when the COMMAND
\* message was written to a connection bound to the deviceId.
C6_SendToDeviceResult ==
    [][\A t \in BagToSet(tasks) :
          (Stepped(t) /\ t.pc = "post_act")
          => LET d == t.data.deviceId
                 k == t.command
             IN /\ BoundTo(d) = {} => delivery'[k] = "failed"
                /\ delivery'[k] = "delivered"
                      => \E ws \in BoundTo(d) :
                            written'[ws] = <<OutMsg("COMMAND", d, k, "pending", "")>>
                /\ delivery'[k] \in {"delivered", "failed"}]_vars

\* C6 witness: a command was delivered to the connection bound to its device,
\* and (another state) one failed on a bound connection that is not OPEN.
C6_Witness ==
    /\ delivery = <<"delivered">>
    /\ \E ws \in BoundTo("D1") : written[ws] = <<OutMsg("COMMAND", "D1", 1, "pending", "")>>

\* C7: the lookup of sendToDevice finds a connection for a deviceId if and only
\* if some connection still in connectedClients is bound to it, and the one it
\* finds is bound to it.
C7_FindIffBound ==
    \A d \in DeviceIds :
        /\ (Find(d) # 0) <=> (BoundTo(d) # {})
        /\ Find(d) # 0 => clientInfo[connectedClients[Find(d)]].deviceId = d

\* C7 witness: connection 1, bound to D1, has been removed by its close handler
\* and the lookup finds connection 2, which is bound to D1 too.
C7_Witness ==
    /\ clientInfo[1].deviceId = "D1" /\ readyState[1] = "CLOSED" /\ 1 \notin Registered
    /\ clientInfo[2].deviceId = "D1"
    /\ Find("D1") # 0 /\ connectedClients[Find("D1")] = 2

\* C8: a COMMAND_RESPONSE whose commandId names no stored command changes no
\* device, command or activity and writes nothing, neither when it is received
\* nor when its handler resumes, and the handler ends there.
C8_UnknownCommandIsNoOp ==
    [][/\ \A t \in BagToSet(tasks') :
             (Started(t) /\ t.pc = "cr_upd" /\ t.data.commandId \notin DOMAIN commands)
             => /\ UNCHANGED <<devices, commands, activities>>
                /\ written' = Silence
                /\ t.command = 0
       /\ \A t \in BagToSet(tasks) :
             (Stepped(t) /\ t.pc = "cr_upd" /\ t.command = 0)
             => /\ UNCHANGED <<devices, commands, activities>>
                /\ written' = Silence
                /\ tasks' = tasks (-) SetToBag({t})]_vars

\* C8 witness: the handler of a response for command 1 is suspended while no
\* command is stored.
C8_Witness ==
    /\ commands = <<>>
    /\ \E t \in BagToSet(tasks) :
          t.pc = "cr_upd" /\ t.data.commandId = 1 /\ t.command = 0

\* C9: when a dispatch sends to an existing device that no connection is bound
\* to, sendToDevice returns false; the status write with its offline broadcast
\* follows if and only if the status the dispatch found stored was "online", and
\* never while the stored status is already "offline".
C9_SelfHealOnlyWhenOnline ==
    [][\A t \in BagToSet(tasks) :
          (/\ Stepped(t) /\ t.pc = "post_act"
           /\ devices[t.data.deviceId] # UndefinedDevice
           /\ BoundTo(t.data.deviceId) = {})
          => LET selfHeal == \E u \in BagToSet(tasks') : Started(u) /\ u.pc = "post_upd"
             IN /\ delivery'[t.command] = "failed"
                /\ selfHeal <=> t.device.status = "online"
                /\ selfHeal => devices[t.data.deviceId].status = "online"]_vars

\* C10: a command is created "pending", and its status changes only in the step
\* that handles a COMMAND_RESPONSE naming its id.
C10_OnlyResponseResolves ==
    [][\A k \in DOMAIN commands' :
          /\ k \notin DOMAIN commands => commands'[k].status = "pending"
          /\ (k \in DOMAIN commands /\ commands'[k].status # commands[k].status)
                => \E t \in BagToSet(tasks') :
                      Started(t) /\ t.pc = "cr_upd" /\ t.data.commandId = k]_vars

\* C10 witness: command 1 was not delivered, the dispatch marked its device
\* offline, every handler has ended, and the command is still pending.
C10_Witness ==
    /\ Quiet
    /\ delivery = <<"failed">>
    /\ offlineBroadcasts[commands[1].deviceId] >= 1
    /\ commands[1].status = "pending"

\* C11: the handler of AUTH{token, deviceId D} for a stored device D binds the
\* connection to D when the message is received, stores D "online" at its status
\* update, appends exactly one "Device connected" activity (at its second
\* resumption and at no other of its steps), and at its last step writes
\* DEVICE_STATUS_CHANGED{D, online} once to every other registered OPEN
\* connection and nothing to its own.
C11_AuthBindsAndAnnounces ==
    [][/\ \A t \in BagToSet(tasks') :
             (Started(t) /\ t.pc = "auth_get")
             => /\ clientInfo'[t.ws].deviceId = t.data.deviceId
                /\ UNCHANGED <<devices, activities>>
                /\ written' = Silence
       /\ \A t \in BagToSet(tasks) :
             (/\ Stepped(t) /\ t.pc = "auth_get"
              /\ t.device # UndefinedDevice /\ devices[t.data.deviceId] # UndefinedDevice)
             => /\ devices'[t.data.deviceId].status = "online"
                /\ UNCHANGED activities
                /\ written' = Silence
       /\ \A t \in BagToSet(tasks) :
             (Stepped(t) /\ t.pc = "auth_upd")
             => /\ activities' = Append(activities,
                                        [deviceId |-> t.data.deviceId,
                                         description |-> "Device connected",
                                         status |-> "completed"])
                /\ written' = Silence
       /\ \A t \in BagToSet(tasks) :
             (Stepped(t) /\ t.pc = "auth_act")
             => /\ UNCHANGED <<devices, activities>>
                /\ written'[t.ws] = <<>>
                /\ \A ws \in Registered \ {t.ws} :
                      written'[ws] = IF readyState[ws] = "OPEN"
                                     THEN <<StatusChanged(t.data.deviceId, "online")>>
                                     ELSE <<>>]_vars

\* C11 witness: connection 2 authenticated as D2 while connection 1 was open;
\* its handler has ended: D2 is online, one activity exists, and the online
\* message went to connection 1 alone.
C11_Witness ==
    /\ Quiet
    /\ clientInfo[2].deviceId = "D2"
    /\ devices["D2"].status = "online"
    /\ activities = <<[deviceId |-> "D2", description |-> "Device connected",
                       status |-> "completed"]>>
    /\ written[1] = <<StatusChanged("D2", "online")>>
    /\ written[2] = <<>>

\* C12: a COMMAND_RESPONSE{commandId, status, result} with a terminal status,
\* received on a device-bound connection for a stored pending command, stores
\* that status, that result and a completedAt; its handler then appends one
\* activity with that status for the command's device, and last writes
\* COMMAND_STATUS_CHANGED{commandId, status, result} once to every registered
\* OPEN connection, the responding one included.
C12_ResponseResolvesAndAnnounces ==
    [][/\ \A t \in BagToSet(tasks') :
             (/\ Started(t) /\ t.pc = "cr_upd"
              /\ t.data.commandId \in DOMAIN commands
              /\ commands[t.data.commandId].status = "pending"
              /\ t.data.status \in Terminal)
             => /\ commands'[t.data.commandId] =
                      [commands[t.data.commandId] EXCEPT !.status = t.data.status,
                                                         !.result = t.data.result,
                                                         !.completedAt = "set"]
                /\ commands'[t.data.commandId].completedAt # "null"
                /\ t.command = t.data.commandId
                /\ UNCHANGED activities
                /\ written' = Silence
       /\ \A t \in BagToSet(tasks) :
             (Stepped(t) /\ t.pc = "cr_upd" /\ t.command # 0)
             => /\ activities' = Append(activities,
                                        [deviceId |-> commands[t.command].deviceId,
                                         description |-> "Command response",
                                         status |-> t.data.status])
                /\ written' = Silence
       /\ \A t \in BagToSet(tasks) :
             (Stepped(t) /\ t.pc = "cr_act")
             => /\ UNCHANGED <<commands, activities>>
                /\ \A ws \in Registered :
                      written'[ws] =
                         IF readyState[ws] = "OPEN"
                         THEN <<OutMsg("COMMAND_STATUS_CHANGED", NoId, t.data.commandId,
                                       t.data.status, t.data.result)>>
                         ELSE <<>>]_vars

\* C12 witness: connection 1, bound to D1, answered command 1 with "completed";
\* the handler has ended, the record is resolved and connection 1 itself was
\* sent COMMAND_STATUS_CHANGED.
C12_Witness ==
    /\ Quiet
    /\ clientInfo[1].deviceId = "D1" /\ readyState[1] = "OPEN"
    /\ commands = <<[deviceId |-> "D1", status |-> "completed", result |-> "out",
                     completedAt |-> "set"]>>
    /\ \E i \in DOMAIN activities : activities[i].description = "Command response"
    /\ written[1] = <<OutMsg("COMMAND_STATUS_CHANGED", NoId, 1, "completed", "out")>>

\* C13: a connection whose transport has closed is eventually out of
\* connectedClients; its close handler is started once (at the one step
\* that takes the socket from CLOSING to CLOSED, marking a stored bound device
\* offline), appends its "Device disconnected" activity, and broadcasts offline
\* in the step that removes it; a removed connection is never in
\* connectedClients again.
C13_CleanupOnceAndRemoved ==
    /\ \A ws \in Conns : (readyState[ws] = "CLOSING") ~> (ws \notin Registered)
    /\ [][/\ \A ws \in Conns :
               /\ readyState[ws] = "CLOSED" => readyState'[ws] = "CLOSED"
               /\ (readyState[ws] = "CLOSED" /\ ws \notin Registered) => ws \notin Registered'
               /\ (ws \in Registered /\ ws \notin Registered')
                     => \/ /\ readyState[ws] = "CLOSING" /\ readyState'[ws] = "CLOSED"
                           /\ clientInfo[ws].deviceId = NoId
                        \/ \E t \in BagToSet(tasks) :
                              /\ Stepped(t) /\ t.pc = "close_act" /\ t.ws = ws
                              /\ written' = broadcastToClients(
                                     StatusChanged(clientInfo[ws].deviceId, "offline"), NoWs)
          /\ \A t \in BagToSet(tasks') :
               (Started(t) /\ t.kind = "close" /\ t.pc = "close_upd")
               => /\ readyState[t.ws] = "CLOSING" /\ readyState'[t.ws] = "CLOSED"
                  /\ CopiesIn(t, tasks') = 1
                  /\ devices[clientInfo[t.ws].deviceId] # UndefinedDevice
                        => devices'[clientInfo[t.ws].deviceId].status = "offline"
          /\ \A t \in BagToSet(tasks) :
               (Stepped(t) /\ t.pc = "close_upd")
               => activities' = Append(activities,
                                       [deviceId |-> clientInfo[t.ws].deviceId,
                                        description |-> "Device disconnected",
                                        status |-> "completed"])]_vars

\* C13 witness: connection 1, bound to D1, closed while connection 2 was open;
\* its cleanup has run: D1 offline, one "Device disconnected" activity, the
\* offline message on connection 2, connection 1 out of the list.
C13_Witness ==
    /\ readyState[1] = "CLOSED" /\ 1 \notin Registered
    /\ clientInfo[1].deviceId = "D1"
    /\ devices["D1"].status = "offline"
    /\ Cardinality({i \in DOMAIN activities :
                       activities[i].description = "Device disconnected"}) = 1
    /\ written[2] = <<StatusChanged("D1", "offline")>>

\* C14: no registered connection has both a deviceId and a userId.
C14_AtMostOneBinding ==
    \A ws \in Registered :
        ~(clientInfo[ws].deviceId # NoId /\ clientInfo[ws].userId # NoUser)

\* C15: a connection that has a deviceId or a userId keeps exactly that binding
\* in every later step.
C15_BindingIsOneWay ==
    [][\A ws \in Conns :
          (clientInfo[ws].deviceId # NoId \/ clientInfo[ws].userId # NoUser)
          => clientInfo'[ws] = clientInfo[ws]]_vars

\* C16: once the close handler of a connection has run to its end (the socket
\* is CLOSED and out of connectedClients), no message handler of that
\* connection changes a device, a command or the activities, or writes to a
\* socket.
C16_ClosedIsTerminal ==
    [][\A t \in BagToSet(tasks) :
          (/\ Stepped(t) /\ t.kind = "message"
           /\ readyState[t.ws] = "CLOSED" /\ t.ws \notin Registered)
          => /\ UNCHANGED <<devices, commands, activities>>
             /\ written' = Silence]_vars

\* C17: when an old connection bound to device D has been closed and cleaned
\* up, another connection that authenticated as D is open and registered, and
\* no handler is in flight, the stored status of D is "online".
C17_ReconnectWins ==
    \A d \in DeviceIds :
        (/\ Quiet
         /\ devices[d] # UndefinedDevice
         /\ \E old \in Conns :
               /\ clientInfo[old].deviceId = d
               /\ readyState[old] = "CLOSED" /\ old \notin Registered
         /\ \E new \in Registered :
               clientInfo[new].deviceId = d /\ readyState[new] = "OPEN")
        => devices[d].status = "online"

\* C18: the receipt of a message that does not parse, or whose type is none of
\* AUTH, COMMAND_RESPONSE and DEVICE_INFO, changes no device, command, activity
\* or binding, writes to no socket, leaves no handler suspended, and leaves the
\* connection list as it is, the sender in it.
C18_DroppedMessageIsNoOp ==
    [][(/\ inbound' # NoInbound
        /\ inbound'.type \notin {"AUTH", "COMMAND_RESPONSE", "DEVICE_INFO"})
       => /\ UNCHANGED <<devices, commands, activities, clientInfo, connectedClients, tasks>>
          /\ written' = Silence
          /\ inbound'.ws \in Registered']_vars

\* C18 witness: connection 1, bound to D1 with D1 online, has just sent a
\* message that does not parse.
C18_Witness ==
    /\ inbound = Receipt(1, Unparsable)
    /\ clientInfo[1].deviceId = "D1"
    /\ devices["D1"].status = "online"
    /\ 1 \in Registered

\* C19: every stored command has status pending, completed or failed, and has
\* an empty result and a null completedAt exactly when it is pending.
C19_CommandWellFormed ==
    \A k \in DOMAIN commands :
        /\ commands[k].status \in {"pending"} \cup Terminal
        /\ commands[k].status = "pending"
              <=> (commands[k].result = "" /\ commands[k].completedAt = "null")

\* C20: the receipt of a COMMAND_RESPONSE or a DEVICE_INFO on a connection that
\* has no deviceId (unbound, or bound to a user only) changes no device, command
\* or activity, writes to no socket and leaves no handler suspended.
C20_OnlyDeviceBoundTakesEffect ==
    [][(/\ inbound'.type \in {"COMMAND_RESPONSE", "DEVICE_INFO"}
        /\ clientInfo[inbound'.ws].deviceId = NoId)
       => /\ UNCHANGED <<devices, commands, activities, clientInfo, connectedClients, tasks>>
          /\ written' = Silence]_vars

\* C20 witness: connection 1, bound to user 7 only, has just sent a
\* COMMAND_RESPONSE while command 1 is stored pending.
C20_Witness ==
    /\ inbound = [ws |-> 1, type |-> "COMMAND_RESPONSE", deviceId |-> NoId, token |-> FALSE]
    /\ clientInfo[1] = [deviceId |-> NoId, userId |-> 7]
    /\ commands # <<>> /\ commands[1].status = "pending"

\* C21: the receipt of an AUTH that binds a user on a connection that had
\* neither a deviceId nor a userId sets that connection's userId and nothing
\* else: its deviceId stays unset, every other connection's binding, the
\* connection list, the devices, commands and activities are unchanged, no
\* handler is left suspended and nothing is written to any socket.
C21_UserAuthOnlyBindsUser ==
    [][(/\ inbound'.type = "AUTH"
        /\ clientInfo[inbound'.ws] = [deviceId |-> NoId, userId |-> NoUser]
        /\ clientInfo'[inbound'.ws].userId # NoUser)
       => /\ clientInfo' = [clientInfo EXCEPT ![inbound'.ws].userId =
                                                 clientInfo'[inbound'.ws].userId]
          /\ clientInfo'[inbound'.ws].userId \in UserIds
          /\ UNCHANGED <<devices, commands, activities, connectedClients, tasks>>
          /\ written' = Silence]_vars

\* C21 witness: connection 2 has just been bound to user 7 by its AUTH while
\* connection 1 is open and bound to D1, stored online.
C21_Witness ==
    /\ inbound = Receipt(2, AuthUser(7))
    /\ clientInfo[2] = [deviceId |-> NoId, userId |-> 7]
    /\ clientInfo[1].deviceId = "D1" /\ readyState[1] = "OPEN"
    /\ devices["D1"].status = "online"

\* C22: every step leaves every activity in place under its id with the fields
\* it was created with, and adds at most one activity, under the next unused id.
C22_ActivitiesAppendOnly ==
    [][/\ Len(activities') \in {Len(activities), Len(activities) + 1}
       /\ \A i \in DOMAIN activities : activities'[i] = activities[i]]_vars

\* C22 witness: three activities of three kinds are in the log, in the order of
\* their creation.
C22_Witness ==
    /\ Len(activities) = 3
    /\ activities[1].description = "Device connected"
    /\ activities[2].description = "Command created"
    /\ activities[3].description = "Device disconnected"

\* C23: a step of an AUTH or DEVICE_INFO handler that found no device record,
\* and a step of the close handler of a connection whose deviceId has no device
\* record, change no device, command or activity and write to no socket.
C23_UnknownDeviceIsNoOp ==
    [][\A t \in BagToSet(tasks) :
          (/\ Stepped(t)
           /\ \/ t.kind = "message" /\ t.pc \in {"auth_get", "di_get"}
                 /\ t.device = UndefinedDevice
              \/ t.kind = "close"
                 /\ getDeviceByDeviceId(clientInfo[t.ws].deviceId) = UndefinedDevice)
          => /\ UNCHANGED <<devices, commands, activities>>
             /\ written' = Silence]_vars

\* C24: a dispatch to a deviceId that several registered OPEN connections are
\* bound to writes the COMMAND to the one registered last, and to no other.
C24_MostRecentWins ==
    [][\A t \in BagToSet(tasks) :
          (/\ Stepped(t) /\ t.pc = "post_act"
           /\ Cardinality(BoundTo(t.data.deviceId)) > 1
           /\ \A ws \in BoundTo(t.data.deviceId) : readyState[ws] = "OPEN")
          => LET bound == {i \in DOMAIN connectedClients :
                              clientInfo[connectedClients[i]].deviceId = t.data.deviceId}
                 last == connectedClients[CHOOSE i \in bound : \A j \in bound : j <= i]
             IN /\ written'[last] # <<>>
                /\ \A ws \in Conns \ {last} : written'[ws] = <<>>]_vars

\* C25: every step that changes the stored status of a device or its stored
\* info gives the device a later lastActive.
C25_LastActiveAdvances ==
    [][\A d \in DeviceIds :
          (/\ devices[d] # UndefinedDevice /\ devices'[d] # UndefinedDevice
           /\ \/ devices'[d].status # devices[d].status
              \/ devices'[d].info # devices[d].info)
          => devices'[d].lastActive = Later(devices[d].lastActive)]_vars

\* C26: in a broadcast, a socket whose send throws keeps the message from no
\* other registered OPEN connection, stops its caller nowhere (the close
\* handler still removes its connection), and removes no other connection.
C26_WriteFailureSwallowed ==
    [][\A t \in BagToSet(tasks) :
          (Stepped(t) /\ t.pc \in BroadcastPcs)
          => LET h == IF t.pc = "auth_act" THEN t.ws ELSE NoWs
             IN /\ \A ws \in Registered :
                      (ws # h /\ readyState[ws] = "OPEN" /\ ws \notin faulty)
                      => Len(written'[ws]) = 1
                /\ t.pc = "close_act" => t.ws \notin Registered'
                /\ Registered \ {t.ws} \subseteq Registered']_vars

\* C27: a COMMAND message is written only in the one dispatch step of its
\* command (the command had not been dispatched before and is never dispatched
\* again), once, to exactly one connection, which is registered and bound to
\* the command's target deviceId in that step; no other step writes a COMMAND.
C27_DeliveryAtMostOnce ==
    [][/\ \A ws \in Conns : \A i \in DOMAIN written'[ws] :
             written'[ws][i].type = "COMMAND"
             => LET k == written'[ws][i].commandId
                IN /\ k \in DOMAIN commands
                   /\ delivery[k] = "unsent" /\ delivery'[k] = "delivered"
                   /\ ws \in Registered
                   /\ clientInfo[ws].deviceId = commands[k].deviceId
                   /\ Len(written'[ws]) = 1
                   /\ \A other \in Conns \ {ws} : written'[other] = <<>>
       /\ \A k \in DOMAIN delivery :
             delivery[k] # "unsent" => delivery'[k] = delivery[k]]_vars

\* C27 witness: command 1 for D1 could not be delivered; afterwards a
\* connection authenticated as D1, its handler has ended, D1 is online, and
\* the command, still pending, was not sent to it.
C27_Witness ==
    /\ Quiet
    /\ delivery = <<"failed">>
    /\ commands[1].deviceId = "D1" /\ commands[1].status = "pending"
    /\ \E ws \in BoundTo("D1") : readyState[ws] = "OPEN"
    /\ devices["D1"].status = "online"
    /\ \E i \in DOMAIN activities :
          /\ activities[i].description = "Device connected"
          /\ \E j \in 1..(i - 1) : activities[j].description = "Command created"

\* C28: a step of the message handler or of the close handler of connection c
\* (its start, any of its resumptions, and a message dropped because parsing
\* it throws) leaves every other connection registered or unregistered as it
\* was, with the deviceId and userId it had.
C28_OtherConnectionsUntouched ==
    [][\A c \in Conns :
          (\/ inbound'.ws = c
           \/ readyState[c] = "CLOSING" /\ readyState'[c] = "CLOSED"
           \/ \E t \in BagToSet(tasks) :
                 Stepped(t) /\ t.kind \in {"message", "close"} /\ t.ws = c)
          => \A other \in Conns \ {c} :
                /\ clientInfo'[other] = clientInfo[other]
                /\ other \in Registered <=> other \in Registered']_vars

\* C28 witness: a message of a registered connection has just been dropped on
\* a parse exception while another connection is registered, open and
\* device-bound.
C28_Witness ==
    /\ inbound.type = Unparsable.type
    /\ inbound.ws \in Registered
    /\ \E other \in Registered \ {inbound.ws} :
          clientInfo[other].deviceId # NoId /\ readyState[other] = "OPEN"

\* C30: a connection that receives an AUTH message carrying a deviceId is
\* device-bound to that deviceId by the step that receives it, whatever the
\* message's other fields are (token, userId).
C30_AuthWithDeviceIdBinds ==
    [][(inbound'.type = "AUTH" /\ inbound'.deviceId # NoId)
       => clientInfo'[inbound'.ws].deviceId = inbound'.deviceId]_vars

\* C30 as amended: an AUTH message carrying a token binds its connection to
\* the deviceId it carries whatever its other fields are (a userId included,
\* which is then not bound); an AUTH message without a token leaves the
\* connection's device binding and the stored devices as they were and writes
\* nothing.
C30_AuthWithTokenBinds ==
    [][inbound'.type = "AUTH"
       => IF inbound'.token
          THEN clientInfo'[inbound'.ws] =
                  [clientInfo[inbound'.ws] EXCEPT !.deviceId = inbound'.deviceId]
          ELSE /\ clientInfo'[inbound'.ws].deviceId = clientInfo[inbound'.ws].deviceId
               /\ devices' = devices
               /\ written' = Silence]_vars

\* C30 witness: connection 1 has sent AUTH{deviceId "D1"} alone and is not
\* bound; connection 2 has sent AUTH with a token, "D1" and a userId, and is
\* bound to "D1" and to no user.
C30_Witness ==
    /\ inbound = Receipt(1, AuthBare("D1"))
    /\ clientInfo[1].deviceId = NoId
    /\ clientInfo[2] = [deviceId |-> "D1", userId |-> NoUser]
    /\ devices["D1"].status = "online"

C31_InfoUpdateOnlyWhenApplied ==
    [][\A t \in BagToSet(tasks) :
          (Stepped(t) /\ t.kind = "message" /\ t.pc = "di_get" /\ t.device # UndefinedDevice)
          => LET D == t.device.deviceId
             IN /\ \A e \in DeviceIds \ {D} : devices'[e] = devices[e]
                /\ \/ devices'[D] = devices[D]
                   \/ devices[D] # UndefinedDevice
                      /\ devices'[D] = [devices[D] EXCEPT !.info = t.data.info]
                /\ commands' = commands /\ clientInfo' = clientInfo
                /\ connectedClients' = connectedClients
                /\ (\E u \in BagToSet(tasks') : Started(u) /\ u.pc = "di_upd")
                   => /\ devices'[D] # UndefinedDevice
                      /\ devices'[D].info = t.data.info]_vars

\* C32: whenever no handler is in flight, every stored device for which a
\* DEVICE_STATUS_CHANGED was broadcast has the status that the last of these
\* broadcasts carried.
C32_LastBroadcastMatchesStore ==
    Quiet => \A d \in DeviceIds :
                (devices[d] # UndefinedDevice /\ announced[d] # "none")
                => announced[d] = devices[d].status

\* C33: once device D has been removed by DELETE and every DELETE handler
\* of D has broadcast its DEVICE_REMOVED, no step writes a
\* DEVICE_STATUS_CHANGED or DEVICE_INFO_UPDATED for D to any connection and no
\* step appends an activity for D.
C33_SilenceAfterRemoval ==
    [][\A D \in DeviceIds :
          (/\ devices[D] = UndefinedDevice
           /\ \E i \in DOMAIN activities :
                 activities[i] = [deviceId |-> D, description |-> "Device removed",
                                  status |-> "completed"]
           /\ \A t \in BagToSet(tasks) : ~(t.kind = "delete" /\ t.device.deviceId = D))
          => /\ \A ws \in Conns : \A i \in DOMAIN written'[ws] :
                   written'[ws][i].deviceId = D
                   => written'[ws][i].type \notin {"DEVICE_STATUS_CHANGED",
                                                   "DEVICE_INFO_UPDATED"}
             /\ \A i \in DOMAIN activities' :
                   i > Len(activities) => activities'[i].deviceId # D]_vars

\* C34: the POST /api/commands handler whose lookup found no device record
\* answers 404 "Device not found" and ends there: no command is created, no
\* activity is appended, no device or connection changes, nothing is written
\* to any socket.
C34_UnknownDevicePostFails ==
    [][\A t \in BagToSet(tasks) :
          (Stepped(t) /\ t.kind = "post" /\ t.pc = "post_get" /\ t.device = UndefinedDevice)
          => /\ response' = Respond(PostCommands, 404, "Device not found")
             /\ tasks' = tasks (-) SetToBag({t})
             /\ commands' = commands /\ delivery' = delivery
             /\ activities' = activities /\ devices' = devices
             /\ connectedClients' = connectedClients /\ clientInfo' = clientInfo
             /\ written' = Silence /\ announced' = announced]_vars

\* C34 witness: POST /api/commands for the removed device D1 has just been
\* answered 404; no command exists and no handler is in flight.
C34_Witness ==
    /\ response = Respond(PostCommands, 404, "Device not found")
    /\ devices["D1"] = UndefinedDevice /\ devices["D2"] # UndefinedDevice
    /\ commands = <<>>
    /\ Quiet

Live == {i \in DOMAIN webSockets : webSockets[i].readyState \in {"CONNECTING", "OPEN"}}

\* C35: after close(), as long as neither connect() nor send() is called, no
\* step creates a socket and no timer is pending.
C35_NoReconnectAfterClose ==
    [][(closeCalled /\ closeCalled')
       => (Len(webSockets') = Len(webSockets) /\ timers' = {})]_vars

C37_OneTimerAndRetry ==
    /\ [](Cardinality(timers) <= 1)
    /\ \A n \in 0..MaxSockets :
          (fired.kind = "closed" /\ fired.socket = socket /\ ~closeCalled
           /\ Len(webSockets) = n)
          ~> (Len(webSockets) > n \/ closeCalled)

\* C38: once the page has run connect(); authenticate(userId), every socket
\* that opens has the AUTH message sent on it eventually.
C38_AuthSentOnOpen ==
    \A i \in 1..MaxSockets :
        (authRequested /\ fired = Fired("open", i))
        ~> (i \in DOMAIN webSockets /\ webSockets[i].auth)

====
